---- MODULE Spec2Model ----
(***************************************************************************)
(* The three batch scripts of bots/personas/commander/skills/              *)
(* TopTierMeetingSummary:                                                  *)
(*   extract_with_pymupdf.py   (Extractor)                                 *)
(*   create_thread_mapping.py  (Classifier)                                *)
(*   add_thread_backlinks.py   (Backlink inserter)                         *)
(* They share nothing but the directory Extracted_PyMuPDF.  Text is a      *)
(* sequence of units; a unit is a one-character string, or one of the      *)
(* named units below.                                                      *)
(***************************************************************************)
EXTENDS Integers, Sequences, FiniteSets, TLC

\* ------------------------------------------------------------------ text

\* A string literal as a sequence of one-character units.
Chars(s) == [i \in 1..Len(s) |-> SubSeq(s, i, i)]

\* The backquote character (the module's lexer has no literal for it).
BQ == "BQ"
\* A run of PadLen one-byte filler characters, and one of PadLen two-byte
\* filler characters; a filler character is no letter of any keyword, marker
\* or line break.
P1 == "P1"
P2 == "P2"
\* What is left of a run that a bounded read cut: at least one filler character.
CUT == "CUT"

PadLen == 24990

\* The number of characters, and of UTF-8 bytes, of the first i units of s.
CharsBefore(s, i) == i + (PadLen - 1) * Cardinality({j \in 1..i : s[j] \in {P1, P2}})

BytesBefore(s, i) ==
    i + (PadLen - 1) * Cardinality({j \in 1..i : s[j] = P1})
      + (2 * PadLen - 1) * Cardinality({j \in 1..i : s[j] = P2})

CharLen(s) == CharsBefore(s, Len(s))

RECURSIVE Concat(_)
Concat(ss) == IF ss = <<>> THEN <<>> ELSE Head(ss) \o Concat(Tail(ss))

StartsWith(s, p) == Len(s) >= Len(p) /\ SubSeq(s, 1, Len(p)) = p

EndsWith(s, p) == Len(s) >= Len(p) /\ SubSeq(s, Len(s) - Len(p) + 1, Len(s)) = p

\* Python's `p in s` for strings.
IsSubstring(p, s) ==
    \/ p = <<>>
    \/ \E i \in 0..(Len(s) - Len(p)) : s[i + 1] = p[1] /\ SubSeq(s, i + 1, i + Len(p)) = p

\* str.replace(old, new): every non-overlapping occurrence, left to right.
OccursAt(s, p, i) == i + Len(p) - 1 <= Len(s) /\ SubSeq(s, i, i + Len(p) - 1) = p

Least(S) == CHOOSE i \in S : \A j \in S : i <= j
Greatest(S) == CHOOSE i \in S : \A j \in S : i >= j

RECURSIVE Replace(_, _, _)
Replace(s, old, new) ==
    LET occ == {i \in 1..Len(s) : OccursAt(s, old, i)}
    IN IF occ = {} THEN s
       ELSE SubSeq(s, 1, Least(occ) - 1) \o new
              \o Replace(SubSeq(s, Least(occ) + Len(old), Len(s)), old, new)

UPPER == Chars("ABCDEFGHIJKLMNOPQRSTUVWXYZ")
LOWER == Chars("abcdefghijklmnopqrstuvwxyz")

LOWER_OF == [c \in {UPPER[i] : i \in 1..26} |-> LOWER[CHOOSE i \in 1..26 : UPPER[i] = c]]

LowerChar(c) == IF c \in DOMAIN LOWER_OF THEN LOWER_OF[c] ELSE c

\* str.lower()
Lower(s) == [i \in 1..Len(s) |-> LowerChar(s[i])]

WHITESPACE == {" ", "\n", "\t"}

\* `text.strip()` is the empty string.
IsBlank(s) == \A i \in 1..Len(s) : s[i] \in WHITESPACE

DIGITS == Chars("0123456789")

\* str(n) for a natural number.
RECURSIVE Str(_)
Str(n) == IF n < 10 THEN <<DIGITS[n + 1]>> ELSE Str(n \div 10) \o <<DIGITS[(n % 10) + 1]>>

\* The characters of file names, in code point order (paths sort by it).
CODE_ORDER == Chars("-.0123456789ABCDEFGHIJKLMNOPQRSTUVWXYZ_abcdefghijklmnopqrstuvwxyz")

Ord(c) == CHOOSE i \in 1..Len(CODE_ORDER) : CODE_ORDER[i] = c

\* a < b for two names: at the first place they differ, or a is a proper prefix.
NameLess(a, b) ==
    LET differ == {i \in 1..Len(a) : i <= Len(b) /\ a[i] # b[i]}
    IN IF differ = {} THEN Len(a) < Len(b)
       ELSE Ord(a[Least(differ)]) < Ord(b[Least(differ)])

\* sorted(names)
RECURSIVE Sorted(_)
Sorted(S) ==
    IF S = {} THEN <<>>
    ELSE LET m == CHOOSE x \in S : \A y \in S \ {x} : NameLess(x, y)
         IN <<m>> \o Sorted(S \ {m})

\* PurePath.stem: the name without its last suffix.
LastDot(name) ==
    LET dots == {i \in 1..Len(name) : name[i] = "."}
    IN IF dots = {} THEN 0 ELSE Greatest(dots)

Stem(name) == IF LastDot(name) > 1 /\ LastDot(name) < Len(name)
              THEN SubSeq(name, 1, LastDot(name) - 1)
              ELSE name

\* Path.glob(prefix + "*" + suffix) on one name.
GlobMatch(name, prefix, suffix) ==
    /\ Len(name) >= Len(prefix) + Len(suffix)
    /\ StartsWith(name, prefix)
    /\ EndsWith(name, suffix)

\* ------------------------------------------------- extract_with_pymupdf.py

PDF_SUFFIX == Chars(".pdf")
MD_SUFFIX == Chars(".md")

\* output_name = pdf_path.stem + ".md"
OutputName(pdfName) == Stem(pdfName) \o MD_SUFFIX

\* The entries of full_text for pages k, k+1, ...: one per page whose text is
\* not blank, f"# Page {page_num + 1}\n\n{text}".
RECURSIVE FullTextFrom(_, _)
FullTextFrom(pages, k) ==
    IF k > Len(pages) THEN <<>>
    ELSE (IF IsBlank(pages[k]) THEN <<>>
          ELSE <<Chars("# Page ") \o Str(k) \o Chars("\n\n") \o pages[k]>>)
         \o FullTextFrom(pages, k + 1)

FullText(pages) == FullTextFrom(pages, 1)

\* sep.join(parts)
RECURSIVE Join(_, _)
Join(sep, parts) ==
    IF parts = <<>> THEN <<>>
    ELSE IF Len(parts) = 1 THEN parts[1]
    ELSE parts[1] \o sep \o Join(sep, Tail(parts))

\* A variant of the page count that counts the pages with text only.
PagesWithText(pages) == Len(FullText(pages))

\* The value written after "**Pages:** ": len(doc).
PagesValue(pages) == Len(pages)

\* The five f.write calls of one PDF, in order.
Writes(pdfName, pages) ==
    << Chars("# ") \o Stem(pdfName) \o Chars("\n\n"),
       Chars("**Source:** ") \o <<BQ>> \o pdfName \o <<BQ>> \o Chars("\n\n"),
       Chars("**Pages:** ") \o Str(PagesValue(pages)) \o Chars("\n\n"),
       Chars("---\n\n"),
       Join(Chars("\n\n"), FullText(pages)) >>

\* Where the body of the try block can raise: fitz.open, page.get_text,
\* open(output_path, 'w'), each f.write, doc.close.  "none": nothing raises.
FAULTS == <<"none", "open", "get_text", "create", "write1", "write2", "write3",
            "write4", "write5", "close">>

Faults(pages) == {FAULTS[i] : i \in 1..Len(FAULTS)} \ (IF pages = <<>> THEN {"get_text"} ELSE {})

\* Whether open(output_path, 'w') was reached and succeeded under the fault.
OutputOpened(fault) == fault \notin {"open", "get_text", "create"}

\* The number of f.write calls that completed under the fault.
WritesDone(fault) == CASE fault = "write1" -> 0
                       [] fault = "write2" -> 1
                       [] fault = "write3" -> 2
                       [] fault = "write4" -> 3
                       [] fault = "write5" -> 4
                       [] OTHER -> 5

\* A variant of the success counter with line 41 moved above doc.close().
SuccessBeforeClose(count, fault) == IF fault \in {"none", "close"} THEN count + 1 ELSE count

\* success after one pass: line 41 runs only when nothing raised before it.
SuccessAfter(count, fault) == IF fault = "none" THEN count + 1 ELSE count

\* failed after one pass: the except clause appends (name, str(e)).
FailedAfter(list, name, fault) ==
    IF fault = "none" THEN list ELSE Append(list, [name |-> name, error |-> fault])

\* The output file's content once the with block is left.
Written(pdfName, pages, fault) ==
    Concat(SubSeq(Writes(pdfName, pages), 1, WritesDone(fault)))

\* ------------------------------------------------- add_thread_backlinks.py

THREAD_MAP ==
    << [thread |-> Chars("AI_ML"),
        files |-> << Chars("Rare_Isotope_Beams"),
                     Chars("InverseUncertaintyQuantificationwith_MachineL"),
                     Chars("RECENT_DEPLOYMENT_OF_AI_ML_TOOLS"),
                     Chars("UQ_EMU_Machine_Learning"),
                     Chars("AI_ML_Experimental_Design"),
                     Chars("AI_Program_Overview"),
                     Chars("DEIMOS_BRAIN"),
                     Chars("Sparse_Bayesian_Methods"),
                     Chars("Dynamic_UQ_Bayesian_Model") >>],
       [thread |-> Chars("Fission_Product_Yields"),
        files |-> << Chars("FPY_Modeling"),
                     Chars("Fission_Session_Overview"),
                     Chars("FPY_Measurements"),
                     Chars("FPY_Needs"),
                     Chars("FPY_Correlations"),
                     Chars("Uncertainty_Quantification_in_Fission_Fragmen"),
                     Chars("Stockpile_Science_Fission"),
                     Chars("ORNL_Inventory_UQ") >>],
       [thread |-> Chars("Activation_Data"),
        files |-> << Chars("High_Precision_Gamma_Ray_Decay_Data"),
                     Chars("Inventory_Sub_Library"),
                     Chars("MicroCALDERA_Active_Target"),
                     Chars("Benchmarking_and_validating_cosmogenic_activa"),
                     Chars("PETALE_Benchmark"),
                     Chars("ORNL_Inventory_UQ") >>] >>

\* file_to_threads.get(key, []): the inversion of thread_map, one thread
\* appended per listing of the key, in thread_map's order.
RECURSIVE ListingsOf(_, _, _)
ListingsOf(key, thread, files) ==
    IF files = <<>> THEN <<>>
    ELSE (IF Head(files) = key THEN <<thread>> ELSE <<>>)
         \o ListingsOf(key, thread, Tail(files))

RECURSIVE ThreadsFrom(_, _)
ThreadsFrom(key, k) ==
    IF k > Len(THREAD_MAP) THEN <<>>
    ELSE ListingsOf(key, THREAD_MAP[k].thread, THREAD_MAP[k].files)
         \o ThreadsFrom(key, k + 1)

FileToThreads(key) == ThreadsFrom(key, 1)

WANDA_PREFIX == Chars("2026-WANDA-")
MARKER == Chars("Related Threads:")
RULE == Chars("---")

\* The files of the loop: glob("2026-WANDA-*.md").
IsWandaMd(name) == GlobMatch(name, WANDA_PREFIX, MD_SUFFIX)

\* f.readlines(): the lines, each with its line break; the last may have none.
LineEnds(content) ==
    {i \in 1..Len(content) : content[i] = "\n" \/ i = Len(content)}

ReadLines(content) ==
    LET ends == LineEnds(content)
        End(k) == CHOOSE e \in ends : Cardinality({x \in ends : x <= e}) = k
        Begin(k) == IF k = 1 THEN 1 ELSE End(k - 1) + 1
    IN [k \in 1..Cardinality(ends) |-> SubSeq(content, Begin(k), End(k))]

\* A variant of the marker test that looks at the first line only.
HasBacklinksInFirstLine(lines) == Len(lines) > 0 /\ IsSubstring(MARKER, lines[1])

\* any("Related Threads:" in line for line in lines)
HasBacklinks(lines) == \E i \in 1..Len(lines) : IsSubstring(MARKER, lines[i])

\* file_key = md_file.stem.replace("2026-WANDA-", "")
FileKey(name) == Replace(Stem(name), WANDA_PREFIX, <<>>)

\* A variant of the stop test without the i > 0 conjunct.
IsRuleAtAnyLine(lines, i) == StartsWith(lines[i + 1], RULE)

\* Whether the loop of insert_idx stops at the line of 0-based index i.
IsRuleAt(lines, i) == StartsWith(lines[i + 1], RULE) /\ i > 0

\* insert_idx: one past the first line the loop stops at, 0 if it stops nowhere.
InsertIdx(lines) ==
    LET stops == {i \in 0..(Len(lines) - 1) : IsRuleAt(lines, i)}
    IN IF stops = {} THEN 0 ELSE Least(stops) + 1

RECURSIVE LinkLines(_)
LinkLines(threads) ==
    IF threads = <<>> THEN <<>>
    ELSE Chars("- [[Threads/") \o Head(threads) \o Chars("]]\n") \o LinkLines(Tail(threads))

\* A variant of the backlinks string whose heading lacks the marker text.
BacklinksUnmarked(threads) ==
    Chars("\n**Threads:**\n") \o LinkLines(threads) \o Chars("\n")

\* The backlinks string.
Backlinks(threads) ==
    Chars("\n**Related Threads:**\n") \o LinkLines(threads) \o Chars("\n")

\* lines.insert(idx, item)
ListInsert(lines, idx, item) ==
    SubSeq(lines, 1, idx) \o <<item>> \o SubSeq(lines, idx + 1, Len(lines))

\* Whether the loop body reaches the write for this file.
Selected(name, content) ==
    /\ ~HasBacklinks(ReadLines(content))
    /\ FileToThreads(FileKey(name)) # <<>>

\* The content written back: f.writelines(lines) after the insert.
WithBacklinks(name, content) ==
    LET lines == ReadLines(content)
    IN Concat(ListInsert(lines, InsertIdx(lines), Backlinks(FileToThreads(FileKey(name)))))

\* ------------------------------------------------- create_thread_mapping.py

THREAD_MAPPINGS ==
    << [name |-> Chars("AI_ML.md"),
        keywords |-> << Chars("AI"), Chars("ML"), Chars("machine learning"),
                        Chars("neural"), Chars("emulator"), Chars("Genesis"),
                        Chars("DEIMOS"), Chars("EMU"), Chars("UQ_EMU"),
                        Chars("ATLAS"), Chars("eigenvector"), Chars("STREAMLINE"),
                        Chars("Bayesian"), Chars("deployment") >>],
       [name |-> Chars("Fission_Product_Yields.md"),
        keywords |-> << Chars("FPY"), Chars("fission product"), Chars("yield"),
                        Chars("CGMF"), Chars("FREYA"), Chars("cumulative"),
                        Chars("independent"), Chars("fragment"),
                        Chars("correlation"), Chars("anti-neutrino") >>],
       [name |-> Chars("Activation_Data.md"),
        keywords |-> << Chars("activation"), Chars("cosmogenic"), Chars("PETALE"),
                        Chars("micro"), Chars("CALDERA"), Chars("inventory"),
                        Chars("transmutation"), Chars("cross section") >>] >>

Threads == 1..Len(THREAD_MAPPINGS)

READ_CAP == 50000
THRESHOLD == 2
CONSOLE_TOP == 20

\* f.read(n) of a file opened in text mode: the first n characters.
Read(content, n) ==
    LET whole == Cardinality({i \in 1..Len(content) : CharsBefore(content, i) <= n})
    IN SubSeq(content, 1, whole)
         \o (IF whole < Len(content) /\ CharsBefore(content, whole) < n
             THEN <<CUT>> ELSE <<>>)

\* sum(1 for kw in keywords if kw.lower() in content_lower)
RECURSIVE CountIn(_, _)
CountIn(keywords, contentLower) ==
    IF keywords = <<>> THEN 0
    ELSE (IF IsSubstring(Lower(Head(keywords)), contentLower) THEN 1 ELSE 0)
         + CountIn(Tail(keywords), contentLower)

\* matches, for one thread and the content read.
Matches(k, content) == CountIn(THREAD_MAPPINGS[k].keywords, Lower(content))

\* The scan of one file: content = f.read(50000), then matches per thread.
Scan(fileContent) == [k \in Threads |-> Matches(k, Read(fileContent, READ_CAP))]

\* The entry appended to a thread's presentations.
Entry(mdName, matches) ==
    [pdf |-> Stem(mdName) \o PDF_SUFFIX,
     md |-> mdName,
     matches |-> matches,
     title |-> Replace(Replace(Stem(mdName), WANDA_PREFIX, <<>>), Chars("_"), Chars(" "))]

\* A variant of the threshold test with > for >=.
MeetsStrictly(matches) == matches > THRESHOLD

\* The threshold test of the scan loop.
Meets(matches) == matches >= THRESHOLD

\* sorted(presentations, key=matches, reverse=True): stable.
RECURSIVE ByMatches(_)
ByMatches(ps) ==
    IF ps = <<>> THEN <<>>
    ELSE LET rest == ByMatches(Tail(ps))
             k == Cardinality({i \in 1..Len(rest) : rest[i].matches > Head(ps).matches})
         IN SubSeq(rest, 1, k) \o <<Head(ps)>> \o SubSeq(rest, k + 1, Len(rest))

Min(a, b) == IF a < b THEN a ELSE b

\* ------------------------------------------------------------ the inputs

\* The most scripts run in a row, and the most failures the environment
\* injects into them.
MaxRuns == 3
MaxFaults == 1

N_FPY == Chars("2026-WANDA-FPY_Modeling.pdf")
N_ORNL == Chars("2026-WANDA-ORNL_Inventory_UQ.pdf")
N_TWICE == Chars("2026-WANDA-2026-WANDA-FPY_Needs.pdf")
M_WELCOME == Chars("2026-WANDA-Welcome.md")
M_BARE == Chars("FPY_Measurements.md")
M_SEED == Chars("2026-WANDA-FPY_Correlations.md")
M_LONG == Chars("2026-WANDA-Sparse_Bayesian_Methods.md")

\* The files the two directories may hold at the start.  A PDF of
\* Presentations: its name and the text of each page.  A file some earlier
\* tool or hand left in Extracted_PyMuPDF: its name and its content.
Catalogue ==
    { [kind |-> "pdf", name |-> N_FPY,
       text |-> <<Chars("Intro\n"), Chars(" \n"), Chars("Models\n")>>],
      [kind |-> "pdf", name |-> N_FPY,
       text |-> <<Chars("See Related Threads: FPY\n")>>],
      [kind |-> "pdf", name |-> N_ORNL,
       text |-> <<Chars("AI and machine learning\n"), Chars("Bayesian UQ\n")>>],
      [kind |-> "pdf", name |-> N_TWICE, text |-> <<Chars("Needs\n")>>],
      [kind |-> "md", name |-> M_SEED, text |-> Chars("---\ntitle: x\n---\nBody\n")],
      [kind |-> "md", name |-> M_SEED, text |-> Chars("# Title\n----\nText\n---\nMore")],
      [kind |-> "md", name |-> M_SEED, text |-> Chars("No rule")],
      [kind |-> "md", name |-> M_WELCOME, text |-> Chars("# Welcome\n\n---\n\nHello\n")],
      [kind |-> "md", name |-> M_BARE, text |-> Chars("# FPY\n\n---\n\nYield\n")],
      [kind |-> "md", name |-> M_LONG,
       text |-> Chars("# Sparse Bayesian\n\n---\n\n") \o <<P2>> \o Chars("ML neural\n")],
      [kind |-> "md", name |-> M_LONG,
       text |-> Chars("# Sparse Bayesian\n\n---\n\n") \o <<P1, P1>> \o Chars("ML neural\n")] }

\* The directories at the start: no file, one file or two, no two of one name.
StartFiles ==
    {{}} \cup {F \in {{a, b} : a, b \in Catalogue} : \A a, b \in F : a.name = b.name => a = b}

Of(F, kind) == [n \in {r.name : r \in {x \in F : x.kind = kind}} |->
                  (CHOOSE r \in F : r.name = n).text]

VARIABLES
    pdfs,           \* Presentations: file name -> the text of each page
    dir,            \* Extracted_PyMuPDF: file name -> content
    cur,            \* the script running, or the last that ran ("none" at first)
    prev,           \* the script that ran before cur
    pc,             \* "loop": inside cur's for loop; "done": cur has exited
    queue,          \* the files the for loop has yet to visit
    success,        \* Extractor: success
    failed,         \* Extractor: failed, a list of (name, error)
    attempted,      \* Extractor: the names the loop body has run for, in order
    presentations,  \* Classifier: thread -> its "presentations" list
    scores,         \* Classifier: file name -> thread -> the matches computed
    console,        \* Classifier: thread -> the entries printed
    report,         \* Classifier: Thread_Mapping.md, thread -> total and entries
    updated,        \* Inserter: updated
    dir0,           \* history: dir when cur started
    blocks,         \* history: file name -> blocks the Inserter wrote into
                    \*   the present content
    runs,           \* history: the scripts started so far
    faults          \* history: the failures injected so far

vars == <<pdfs, dir, cur, prev, pc, queue, success, failed, attempted,
          presentations, scores, console, report, updated, dir0, blocks,
          runs, faults>>

NoEntries == [k \in Threads |-> <<>>]
NoReport == [k \in Threads |-> [total |-> 0, entries |-> <<>>]]

Init ==
    /\ \E F \in StartFiles : pdfs = Of(F, "pdf") /\ dir = Of(F, "md")
    /\ cur = "none" /\ prev = "none" /\ pc = "done" /\ queue = <<>>
    /\ success = 0 /\ failed = <<>> /\ attempted = <<>>
    /\ presentations = NoEntries /\ scores = <<>>
    /\ console = NoEntries /\ report = NoReport
    /\ updated = 0
    /\ dir0 = dir
    /\ blocks = [n \in DOMAIN dir |-> 0]
    /\ runs = 0 /\ faults = 0

\* A script starts: a fresh process, its globals at their initial values.
Start(script, files) ==
    /\ pc = "done" /\ runs < MaxRuns
    /\ runs' = runs + 1
    /\ cur' = script /\ prev' = cur /\ pc' = "loop"
    /\ queue' = Sorted(files)
    /\ success' = 0 /\ failed' = <<>> /\ attempted' = <<>>
    /\ presentations' = NoEntries /\ scores' = <<>>
    /\ console' = NoEntries
    /\ updated' = 0
    /\ dir0' = dir
    /\ UNCHANGED <<pdfs, dir, report, blocks, faults>>

\* The loop is over; what follows it only prints.
Exit(script) ==
    /\ pc = "loop" /\ cur = script /\ queue = <<>>
    /\ pc' = "done"

\* extract_with_pymupdf.py, lines 7-15.
StartExtract ==
    Start("extract", {n \in DOMAIN pdfs : GlobMatch(n, <<>>, PDF_SUFFIX)})

\* One pass of the for loop, lines 17-46, for the PDF at the head of the queue.
ExtractStep ==
    /\ pc = "loop" /\ cur = "extract" /\ queue # <<>>
    /\ LET name == Head(queue)
           out == OutputName(name)
       IN \E fault \in Faults(pdfs[name]) :
            /\ fault # "none" => faults < MaxFaults
            /\ faults' = IF fault = "none" THEN faults ELSE faults + 1
            /\ dir' = IF OutputOpened(fault)
                      THEN [n \in DOMAIN dir \cup {out} |->
                              IF n = out THEN Written(name, pdfs[name], fault) ELSE dir[n]]
                      ELSE dir
            /\ blocks' = IF OutputOpened(fault)
                         THEN [n \in DOMAIN dir \cup {out} |-> IF n = out THEN 0 ELSE blocks[n]]
                         ELSE blocks
            /\ success' = SuccessAfter(success, fault)
            /\ failed' = FailedAfter(failed, name, fault)
            /\ attempted' = Append(attempted, name)
    /\ queue' = Tail(queue)
    /\ UNCHANGED <<pdfs, cur, prev, pc, presentations, scores, console, report,
                   updated, dir0, runs>>

\* Lines 48-55: the summary.
ExitExtract ==
    /\ Exit("extract")
    /\ UNCHANGED <<pdfs, dir, cur, prev, queue, success, failed, attempted,
                   presentations, scores, console, report, updated, dir0, blocks, runs, faults>>

\* add_thread_backlinks.py, lines 23-35.
StartInsert ==
    Start("insert", {n \in DOMAIN dir : IsWandaMd(n)})

\* One pass of the for loop, lines 35-74.
InsertStep ==
    /\ pc = "loop" /\ cur = "insert" /\ queue # <<>>
    /\ LET name == Head(queue)
       IN IF Selected(name, dir[name])
          THEN /\ dir' = [dir EXCEPT ![name] = WithBacklinks(name, dir[name])]
               /\ blocks' = [blocks EXCEPT ![name] = @ + 1]
               /\ updated' = updated + 1
          ELSE UNCHANGED <<dir, blocks, updated>>
    /\ queue' = Tail(queue)
    /\ UNCHANGED <<pdfs, cur, prev, pc, success, failed, attempted, presentations,
                   scores, console, report, dir0, runs, faults>>

\* Line 76: the count of files updated.
ExitInsert ==
    /\ Exit("insert")
    /\ UNCHANGED <<pdfs, dir, cur, prev, queue, success, failed, attempted,
                   presentations, scores, console, report, updated, dir0, blocks, runs, faults>>

\* create_thread_mapping.py, lines 11-32.
StartClassify ==
    Start("classify", {n \in DOMAIN dir : GlobMatch(n, <<>>, MD_SUFFIX)})

\* One pass of the scan loop, lines 32-51.
ClassifyStep ==
    /\ pc = "loop" /\ cur = "classify" /\ queue # <<>>
    /\ LET name == Head(queue)
           m == Scan(dir[name])
       IN /\ presentations' =
                [k \in Threads |->
                    IF Meets(m[k]) THEN Append(presentations[k], Entry(name, m[k]))
                    ELSE presentations[k]]
          /\ scores' = [n \in DOMAIN scores \cup {name} |->
                          IF n = name THEN m ELSE scores[n]]
    /\ queue' = Tail(queue)
    /\ UNCHANGED <<pdfs, dir, cur, prev, pc, success, failed, attempted, console,
                   report, updated, dir0, blocks, runs, faults>>

\* Lines 53-79: the console listing and Thread_Mapping.md.
ExitClassify ==
    /\ Exit("classify")
    /\ console' = [k \in Threads |->
                     SubSeq(ByMatches(presentations[k]), 1,
                            Min(CONSOLE_TOP, Len(presentations[k])))]
    /\ report' = [k \in Threads |->
                    [total |-> Len(presentations[k]),
                     entries |-> ByMatches(presentations[k])]]
    /\ UNCHANGED <<pdfs, dir, cur, prev, queue, success, failed, attempted,
                   presentations, scores, updated, dir0, blocks, runs, faults>>

Next ==
    \/ StartExtract \/ ExtractStep \/ ExitExtract
    \/ StartInsert \/ InsertStep \/ ExitInsert
    \/ StartClassify \/ ClassifyStep \/ ExitClassify

Spec == Init /\ [][Next]_vars

\* ------------------------------------------------------------ the properties

\* The names of the PDFs of Presentations the Extractor's glob selects.
PdfNames == {n \in DOMAIN pdfs : EndsWith(n, Chars(".pdf"))}

\* The name of the file the Extractor writes for a PDF: the PDF's name with
\* its final ".pdf" replaced by ".md".
MdOf(pdfName) == SubSeq(pdfName, 1, Len(pdfName) - 4) \o Chars(".md")

\* The files of Extracted_PyMuPDF whose content differs from what it was
\* when the running script started, files it created included.
Changed == {f \in DOMAIN dir : f \notin DOMAIN dir0 \/ dir[f] # dir0[f]}

\* The number of lines of a content that are the heading of a backlink block.
BLOCK_HEADING == Chars("\n**Related Threads:**\n")
HeadingCount(content) ==
    Cardinality({i \in 1..Len(content) : OccursAt(content, BLOCK_HEADING, i)})

\* C1: a run of the Backlink inserter that directly follows another run of
\* it changes no file of the extraction directory and updates none,
\* whatever the files' names and contents.
C1_SecondRunChangesNothing ==
    (cur = "insert" /\ prev = "insert") => (dir = dir0 /\ updated = 0)

\* The second of two runs has ended, and it went over a file that the first
\* run had given its block.
C1_Witness ==
    /\ cur = "insert" /\ prev = "insert" /\ pc = "done"
    /\ \E f \in DOMAIN dir : blocks[f] = 1 /\ IsWandaMd(f)

\* C2: whatever the interleaving of the three scripts, no file holds more
\* than one block written by the Backlink inserter, and the block headings
\* in a file are exactly the blocks the inserter wrote into it.
C2_AtMostOneBlock ==
    \A f \in DOMAIN dir : blocks[f] <= 1 /\ HeadingCount(dir[f]) = blocks[f]

\* The Extractor has run again after the inserter and has overwritten a file
\* that held a block.
C2_Witness ==
    /\ cur = "extract" /\ prev = "insert" /\ pc = "done"
    /\ \E f \in DOMAIN dir \cap DOMAIN dir0 :
          HeadingCount(dir0[f]) = 1 /\ blocks[f] = 0 /\ dir[f] # dir0[f]

\* Whether after is before with a backlink block put in after its first
\* cut units, everything else kept in its order.
InsertedAt(before, after, cut) ==
    LET n == Len(after) - Len(before)
    IN /\ n > 0
       /\ SubSeq(after, 1, cut) = SubSeq(before, 1, cut)
       /\ SubSeq(after, cut + n + 1, Len(after)) = SubSeq(before, cut + 1, Len(before))
       /\ StartsWith(SubSeq(after, cut + 1, cut + n), BLOCK_HEADING)
       /\ IsSubstring(Chars("- [[Threads/"), SubSeq(after, cut + 1, cut + n))

\* The end of the line that holds position i.
LineEndFrom(content, i) ==
    Least({j \in i..Len(content) : content[j] = "\n" \/ j = Len(content)})

\* The starts of the lines that are a horizontal rule, "---" and nothing else.
RuleLines(content) ==
    {i \in 1..Len(content) :
        /\ i = 1 \/ content[i - 1] = "\n"
        /\ OccursAt(content, RULE, i)
        /\ i + 3 > Len(content) \/ content[i + 3] = "\n"}

\* The starts of the lines, the file's first line apart, that start with "---".
LaterRuleStarts(content) ==
    {i \in 2..Len(content) : content[i - 1] = "\n" /\ OccursAt(content, RULE, i)}

\* C3 as the specification states it: every file the inserter updates holds
\* the block immediately after the first "---" line of the file, all its
\* lines kept in order before and after.
C3_AfterFirstRuleLine ==
    cur = "insert" =>
        \A f \in Changed :
            /\ RuleLines(dir0[f]) # {}
            /\ InsertedAt(dir0[f], dir[f], LineEndFrom(dir0[f], Least(RuleLines(dir0[f]))))

\* C3 as the code has it: the block goes immediately after the first line,
\* the file's first line apart, that starts with "---", and at the very top
\* of the file when there is no such line; all lines are kept in order.
C3_InsertionPoint ==
    cur = "insert" =>
        \A f \in Changed :
            /\ f \in DOMAIN dir0
            /\ InsertedAt(dir0[f], dir[f],
                          IF LaterRuleStarts(dir0[f]) = {} THEN 0
                          ELSE LineEndFrom(dir0[f], Least(LaterRuleStarts(dir0[f]))))

\* The inserter has updated a file whose first line is a rule and which has
\* a later line that starts with "---".
C3_Witness ==
    /\ cur = "insert"
    /\ \E f \in Changed :
          /\ f \in DOMAIN dir0
          /\ StartsWith(dir0[f], RULE)
          /\ LaterRuleStarts(dir0[f]) # {}

\* Whether two characters are the same letter, case apart.
SameLetter(a, b) == a = b \/ \E i \in 1..26 : {a, b} = {UPPER[i], LOWER[i]}

\* The positions where a keyword occurs in a content, case apart.
FoundAt(kw, content) ==
    {i \in 1..(Len(content) - Len(kw) + 1) :
        \A j \in 1..Len(kw) : SameLetter(kw[j], content[i + j - 1])}

\* The keywords of thread k that occur, case apart, in the first n bytes of
\* the UTF-8 file, counted once each.
CountInBytes(k, content, n) ==
    Cardinality({x \in 1..Len(THREAD_MAPPINGS[k].keywords) :
        \E i \in FoundAt(THREAD_MAPPINGS[k].keywords[x], content) :
            BytesBefore(content, i + Len(THREAD_MAPPINGS[k].keywords[x]) - 1) <= n})

\* C4: the match count the Classifier computes for a file and a thread is
\* the number of the thread's keywords that occur, case apart, in the first
\* 50,000 bytes of the file.
C4_CountOverFirstBytes ==
    cur = "classify" =>
        \A f \in DOMAIN scores : \A k \in Threads :
            scores[f][k] = CountInBytes(k, dir[f], READ_CAP)

\* The md names of the entries of a list.
MdNames(entries) == {entries[i].md : i \in 1..Len(entries)}

\* C5: when the Classifier has ended, a file is in a thread's list, and in
\* the report's section of the thread, exactly when its match count for the
\* thread is at least 2, it is there once with that count, the console shows
\* entries of the list only, and a file with fewer than 2 matches for every
\* thread is in no list.
C5_ListedIffAtLeastTwo ==
    (cur = "classify" /\ pc = "done") =>
        /\ DOMAIN scores = {f \in DOMAIN dir : EndsWith(f, Chars(".md"))}
        /\ \A k \in Threads :
            /\ \A f \in DOMAIN scores :
                /\ f \in MdNames(presentations[k]) <=> scores[f][k] >= 2
                /\ f \in MdNames(report[k].entries) <=> scores[f][k] >= 2
            /\ \A i \in 1..Len(report[k].entries) :
                /\ report[k].entries[i].matches = scores[report[k].entries[i].md][k]
                /\ \A j \in 1..Len(report[k].entries) :
                      report[k].entries[i].md = report[k].entries[j].md => i = j
            /\ report[k].total = Cardinality({f \in DOMAIN scores : scores[f][k] >= 2})
            /\ Len(presentations[k]) = report[k].total
            /\ \A i \in 1..Len(console[k]) : console[k][i].md \in MdNames(report[k].entries)

\* The Classifier has ended with a file of exactly 2 matches in a list and a
\* file below 2 matches for every thread in none.
C5_Witness ==
    /\ cur = "classify" /\ pc = "done"
    /\ \E f \in DOMAIN scores : \E k \in Threads :
          scores[f][k] = 2 /\ f \in MdNames(report[k].entries)
    /\ \E g \in DOMAIN scores : \A k \in Threads : scores[g][k] < 2

\* The decimal number a digit string stands for.
RECURSIVE ToNat(_)
ToNat(ds) ==
    IF ds = <<>> THEN 0
    ELSE 10 * ToNat(SubSeq(ds, 1, Len(ds) - 1))
         + (CHOOSE d \in 0..9 : DIGITS[d + 1] = ds[Len(ds)])

\* The number in the first "**Pages:** " line of a content, -1 if none.
PAGES_LABEL == Chars("**Pages:** ")
PagesHeader(content) ==
    LET at == {i \in 1..Len(content) : OccursAt(content, PAGES_LABEL, i)}
    IN IF at = {} THEN -1
       ELSE LET from == Least(at) + Len(PAGES_LABEL)
                to == Least({j \in from..Len(content) : content[j] = "\n"}) - 1
            IN IF to < from \/ \E j \in from..to : content[j] \notin {DIGITS[d] : d \in 1..10}
               THEN -1
               ELSE ToNat(SubSeq(content, from, to))

\* The PDFs the running Extractor has processed without a failure.
Succeeded == {attempted[i] : i \in 1..Len(attempted)} \ {failed[i].name : i \in 1..Len(failed)}

\* C6: for every PDF the Extractor processed without a failure, the
\* extraction directory holds the file named by the PDF's stem and ".md",
\* the one file of that stem, and its Pages header is the PDF's page count,
\* pages without text counted.
C6_OneFilePerStemWithPageCount ==
    cur = "extract" =>
        \A n \in Succeeded :
            /\ MdOf(n) \in DOMAIN dir
            /\ Cardinality({f \in DOMAIN dir : EndsWith(f, Chars(".md"))
                               /\ SubSeq(f, 1, Len(f) - 3) = SubSeq(n, 1, Len(n) - 4)}) = 1
            /\ PagesHeader(dir[MdOf(n)]) = Len(pdfs[n])
            /\ StartsWith(dir[MdOf(n)], Chars("# ") \o SubSeq(n, 1, Len(n) - 4) \o Chars("\n\n"))

\* The Extractor has processed without a failure a PDF one of whose three
\* pages has no text.
C6_Witness ==
    /\ cur = "extract" /\ pc = "done"
    /\ \E n \in Succeeded :
          Len(pdfs[n]) = 3 /\ \E i \in 1..3 : IsBlank(pdfs[n][i])

\* Whether name a comes before name b in the order of Python's sorted().
Before(a, b) ==
    \E p \in 0..Min(Len(a), Len(b)) :
        /\ SubSeq(a, 1, p) = SubSeq(b, 1, p)
        /\ \/ p = Len(a) /\ p < Len(b)
           \/ p < Len(a) /\ p < Len(b) /\ Ord(a[p + 1]) < Ord(b[p + 1])

C8_FailedLeavesNoOutput ==
    cur = "extract" =>
        \A i \in 1..Len(failed) : MdOf(failed[i].name) \notin Changed

\* The stem with its leading "2026-WANDA-" taken off.
WithoutLeadingPrefix(stem) ==
    IF StartsWith(stem, WANDA_PREFIX)
    THEN SubSeq(stem, Len(WANDA_PREFIX) + 1, Len(stem))
    ELSE stem

\* Whether thread_map lists a key under some thread.
Listed(key) ==
    \E t \in 1..Len(THREAD_MAP) : \E j \in 1..Len(THREAD_MAP[t].files) :
        THREAD_MAP[t].files[j] = key

\* C9: when the inserter has ended, the files it has changed are exactly the
\* files named 2026-WANDA-*.md that did not hold "Related Threads:" and whose
\* stem, its leading prefix taken off, is a key of the thread map; updated is
\* their number.
C9_UpdatedIffEligible ==
    (cur = "insert" /\ pc = "done") =>
        /\ \A f \in DOMAIN dir0 :
              f \in Changed <=>
                /\ StartsWith(f, WANDA_PREFIX) /\ EndsWith(f, Chars(".md"))
                /\ ~IsSubstring(MARKER, dir0[f])
                /\ Listed(WithoutLeadingPrefix(SubSeq(f, 1, Len(f) - 3)))
        /\ updated = Cardinality(Changed)

\* C10: for a file the Extractor produced, the Classifier's match count for
\* every thread is the same after the inserter has put its block in as it
\* was before.
C10_CountsUnchangedByBlock ==
    cur = "insert" =>
        \A n \in PdfNames :
            (/\ MdOf(n) \in DOMAIN dir0
             /\ dir0[MdOf(n)] = Written(n, pdfs[n], "none")
             /\ MdOf(n) \in Changed)
            => Scan(dir[MdOf(n)]) = Scan(dir0[MdOf(n)])

====
